---- MODULE Spec2Model ----
(***************************************************************************)
(* genertobs_unstable/_writers.py: write_dict_to_ertobs and the functions  *)
(* it calls, as a state machine over the destination directory, and        *)
(* merge_rft_ertobs / get_observations as operators over bounded tables.   *)
(*                                                                         *)
(* Text is modelled line by line: a file or a returned string is a         *)
(* sequence of lines, and a line is a record holding the slots of the      *)
(* f-string that produces it, each slot built by string concatenation as   *)
(* the code builds it.                                                     *)
(***************************************************************************)
EXTENDS Integers, Sequences, FiniteSets, TLC

\* ------------------------------------------------------------------ bounds
MaxObs == 2

MaxElems == 2

MaxCalls == 2

MaxLines == 2

MaxTokens == 3

\* ------------------------------------------------------------- environment
Cwd == "/scratch"

User == "user"

\* the `parent` argument of write_dict_to_ertobs, relative to Cwd
Parent == "ertobs"

PathJoin(a, b) == a \o "/" \o b

\* Path.resolve() of a relative path
Resolve(p) == PathJoin(Cwd, p)

\* ------------------------------------------------------------------ inputs
Wells == {"R_A2", "R A3"}

Restarts == {1, 2}

DateOf(restart) == IF restart = 1 THEN "2018-01-01" ELSE "2019-07-01"

\* one row of an RFT element's data frame
RftRow(restart, k, active) ==
  [value |-> 100 * restart + k, error |-> 3,
   x |-> 10 * k, y |-> 20 * k, md |-> 1000 * restart + k,
   tvd |-> 900 * restart + k, zone |-> "Z" \o ToString(k), active |-> active]

\* a frame with active and inactive rows, and a frame with only inactive rows
ActiveFrame(restart) ==
  << RftRow(restart, 1, TRUE), RftRow(restart, 2, FALSE), RftRow(restart, 3, TRUE) >>

InactiveFrame(restart) == << RftRow(restart, 1, FALSE) >>

RftElement(well, restart, frame) ==
  [well_name |-> well, date |-> DateOf(restart), restart |-> restart, data |-> frame]

Elements ==
  { RftElement("R_A2", 1, ActiveFrame(1)),
    RftElement("R_A2", 2, ActiveFrame(2)),
    RftElement("R A3", 1, ActiveFrame(1)),
    RftElement("R A3", 2, InactiveFrame(2)) }

SeqsUpTo(S, n) == UNION { [1..k -> S] : k \in 0..n }

SummaryRow(k, active) ==
  [label |-> "OBS" \o ToString(k), value |-> 50 + k, error |-> 5,
   date |-> DateOf(1), active |-> active]

SummaryData ==
  << [vector |-> "WOPR:R_A2", data |-> << SummaryRow(1, TRUE), SummaryRow(2, FALSE) >>] >>

\* obs["config"]: name, type, metadata.subtype.name, plugin_arguments.zonemap
SummaryConfig == [name |-> "rates", type |-> "SUMMARY", subtype |-> "", zonemap |-> ""]

RftConfigs ==
  { [name |-> "rft pressure", type |-> "RFT", subtype |-> "PRESSURE",
     zonemap |-> "rms/layer_zone_pressure.txt"],
    [name |-> "rft swat", type |-> "RFT", subtype |-> "SWAT",
     zonemap |-> "rms/layer_zone_swat.txt"] }

OtherConfig == [name |-> "seismic", type |-> "OTHER", subtype |-> "", zonemap |-> ""]

Observations ==
  { [config |-> SummaryConfig, data |-> SummaryData] }
  \cup { [config |-> c, data |-> d] : c \in RftConfigs, d \in SeqsUpTo(Elements, MaxElems) }
  \cup { [config |-> OtherConfig, data |-> << >>] }

ObsLists == SeqsUpTo(Observations, MaxObs)

\* what the destination may hold before the first call
NoFiles == [p \in {} |-> << >>]

StaleFiles ==
  [p \in { Resolve(PathJoin(Parent, "notes.txt")),
           Resolve(PathJoin(Parent, "gen_data_rft_wells.ert")),
           Resolve(PathJoin(PathJoin(Parent, "rft"), "OLD.txt")) } |->
     << [kind |-> "COMMENT", text |-> "stale"] >>]

InitialContents ==
  { [dirs |-> {}, files |-> NoFiles],
    [dirs |-> {Resolve(Parent)}, files |-> NoFiles],
    [dirs |-> {Resolve(Parent), Resolve(PathJoin(Parent, "rft"))}, files |-> StaleFiles] }

\* ------------------------------------------------------------------- state
VARIABLES
  dirs,            \* directories that exist
  files,           \* path -> content (a sequence of lines) of the files that exist
  pc,              \* "idle", "obs" (loop of write_dict_to_ertobs),
                   \* "elem" (loop of write_rft_ertobs), "done"
  calls,           \* number of calls of write_dict_to_ertobs started
  obs_list,        \* the argument of the running / last call
  i,               \* position in obs_list
  j,               \* position in obs["data"] inside write_rft_ertobs
  obs_str,         \* write_dict_to_ertobs: obs_str
  gen_data,        \* write_dict_to_ertobs: gen_data
  gendata_rft_str, \* write_dict_to_ertobs: gendata_rft_str
  well_date_list,  \* write_rft_ertobs: well_date_list
  rft_ertobs_str,  \* write_rft_ertobs: rft_ertobs_str
  rft_gen_data,    \* write_rft_ertobs: gen_data
  ret,             \* the value returned by the last completed call
  obsdir,          \* merge_rft_ertobs: file name -> lines of the .obs files in obsdir
  gendatacsv,      \* merge_rft_ertobs: the rows of the simulated-RFT csv file
  mpc,             \* "start", "observations" or "merged"
  dframe           \* the table returned by get_observations / merge_rft_ertobs

wvars == << dirs, files, pc, calls, obs_list, i, j, obs_str, gen_data,
            gendata_rft_str, well_date_list, rft_ertobs_str, rft_gen_data, ret >>

mvars == << obsdir, gendatacsv, mpc, dframe >>

vars == << wvars, mvars >>

\* ----------------------------------------------------------------- helpers
\* mutant: the destination is not emptied
rmtree_keeps(f) == f

\* "if parent.exists(): rmtree(parent)": every file of the model lies under parent
rmtree(f) == NoFiles

WriteFile(f, p, content) ==
  [q \in (DOMAIN f) \cup {p} |-> IF q = p THEN content ELSE f[q]]

Comment(text) == [kind |-> "COMMENT", text |-> text]

GENDATA_RFT_EXPLAINER ==
  << Comment("-------------------------"),
     Comment("-- GENDATA_RFT  -- Create files with simulated rft pressure"),
     Comment("-------------------------"),
     Comment("-- ERT doc: https://fmu-docs.equinor.com/docs/ert/reference/forward_models.html#GENDATA_RFT"),
     Comment("") >>

GENDATA_EXPLAINER ==
  << Comment("-------------------------"),
     Comment("-- GEN_DATA  -- Create GEN_DATA of rft for usage in AHM"),
     Comment("-------------------------"),
     Comment("-- ERT doc: https://fmu-docs.equinor.com/docs/ert/reference/configuration/keywords.html#gen-data"),
     Comment(""),
     Comment("--       ert id       Result file name           input format         report step") >>

\* datetime.now(), at the resolution of one tick per call
Ctime(n) == "call-" \o ToString(n)

Upper(type_str) == IF type_str = "file" THEN "FILE" ELSE "FOLDER"

add_time_stamp(string, record_type, n) ==
  LET type_str == IF record_type = "f" THEN "file" ELSE "folder"
  IN << Comment("--This " \o type_str \o " is autogenerated by " \o User
                \o " running genertobs_unstable at " \o Ctime(n)),
        Comment("-- DO NOT EDIT THIS " \o Upper(type_str) \o " MANUALLY!") >>
     \o string

\* _utilities.inactivate_rows: keep the rows flagged active
IsActive(row) == row.active

inactivate_rows(frame) == SelectSeq(frame, IsActive)

\* _utilities.check_and_fix_str: whitespace in a name becomes "_"
check_and_fix_str(name) == IF name = "R A3" THEN "R_A3" ELSE name

Lower(prefix) == IF prefix = "PRESSURE" THEN "pressure" ELSE "swat"

SummaryLine(row, key) ==
  [kind |-> "SUMMARY_OBSERVATION",
   label |-> row.label,
   value |-> "{VALUE=" \o ToString(row.value) \o ";",
   error |-> "ERROR=" \o ToString(row.error) \o ";",
   date |-> "DATE=" \o row.date \o ";",
   key |-> "KEY=" \o key \o ";};"]

RECURSIVE write_timeseries_ertobs(_)
write_timeseries_ertobs(obs_dict) ==
  IF obs_dict = << >> THEN << >>
  ELSE LET element == Head(obs_dict)
           obs_frame == inactivate_rows(element.data)
       IN [k \in 1..Len(obs_frame) |-> SummaryLine(obs_frame[k], element.vector)]
          \o write_timeseries_ertobs(Tail(obs_dict))

create_rft_ertobs_str(element, prefix, obs_file) ==
  [kind |-> "GENERAL_OBSERVATION",
   key |-> element.well_name \o "_" \o prefix \o "_OBS",
   data |-> element.well_name \o "_" \o prefix \o "_SIM",
   restart |-> element.restart,
   obs_file |-> obs_file]

\* mutant: the prefix is left out of the result file name for every prefix
create_rft_gendata_str_sep(element, prefix, outfolder_name) ==
  [kind |-> "GEN_DATA",
   key |-> element.well_name \o "_" \o prefix \o "_SIM",
   result_file |-> outfolder_name \o "/RFT_" \o element.well_name \o "_%d",
   report_steps |-> element.restart]

create_rft_gendata_str(element, prefix, outfolder_name) ==
  LET separator_string == IF prefix = "PRESSURE" THEN "_" ELSE "_" \o prefix \o "_"
  IN [kind |-> "GEN_DATA",
      key |-> element.well_name \o "_" \o prefix \o "_SIM",
      result_file |-> outfolder_name \o "/RFT" \o separator_string
                      \o element.well_name \o "_%d",
      report_steps |-> element.restart]

\* well_date_path is parent joined with a file name, so removing str(parent)
\* from it leaves "/" and the file name
write_genrft_str(parent, well_date_name, layer_zone_table, outfolder_name) ==
  GENDATA_RFT_EXPLAINER
  \o << [kind |-> "DEFINE", name |-> "<RFT_INPUT>", value |-> parent],
        [kind |-> "FORWARD_MODEL", job |-> "MAKE_DIRECTORY",
         directory |-> outfolder_name],
        [kind |-> "FORWARD_MODEL", job |-> "GENDATA_RFT",
         path_to_trajectory_files |-> "<RFT_INPUT>",
         well_and_time_file |-> "<RFT_INPUT>/" \o "/" \o well_date_name,
         zonemap |-> layer_zone_table,
         outputdirectory |-> outfolder_name],
        Comment("") >>

ObsFrame(well_frame) ==
  [k \in 1..Len(well_frame) |->
     [value |-> well_frame[k].value, error |-> well_frame[k].error]]

PositionFrame(well_frame) ==
  [k \in 1..Len(well_frame) |->
     [x |-> well_frame[k].x, y |-> well_frame[k].y, md |-> well_frame[k].md,
      tvd |-> well_frame[k].tvd, zone |-> well_frame[k].zone]]

ObsFilePath(parent_folder, prefix, element) ==
  Resolve(PathJoin(parent_folder,
                   Lower(prefix) \o "_" \o check_and_fix_str(element.well_name) \o ".obs"))

PositionFilePath(parent_folder, element) ==
  Resolve(PathJoin(parent_folder, check_and_fix_str(element.well_name) \o ".txt"))

None == "None"

\* mutant: a well with no rows left is written like the others
write_well_rft_files_noskip(f, parent_folder, prefix, element) ==
  LET well_frame == inactivate_rows(element.data)
      obs_file == ObsFilePath(parent_folder, prefix, element)
      position_file == PositionFilePath(parent_folder, element)
  IN [files |-> WriteFile(WriteFile(f, obs_file, ObsFrame(well_frame)),
                          position_file, PositionFrame(well_frame)),
      obs_file |-> obs_file]

\* write_well_rft_files(parent_folder, prefix, element): the files after it and
\* the path it returns
write_well_rft_files(f, parent_folder, prefix, element) ==
  LET well_frame == inactivate_rows(element.data)
      obs_file == ObsFilePath(parent_folder, prefix, element)
      position_file == PositionFilePath(parent_folder, element)
  IN IF well_frame = << >>
     THEN [files |-> f, obs_file |-> None]
     ELSE [files |-> WriteFile(WriteFile(f, obs_file, ObsFrame(well_frame)),
                               position_file, PositionFrame(well_frame)),
           obs_file |-> obs_file]

\* mutant: the block is rebuilt for every RFT observation
first_genrft_str_always(current, parent, obs) ==
  write_genrft_str(parent, "well_date_restart.txt", obs.config.zonemap, "gendata_rft")

\* "if gendata_rft_str == '': gendata_rft_str = write_genrft_str(...)"
first_genrft_str(current, parent, obs) ==
  IF current = << >>
  THEN write_genrft_str(parent, "well_date_restart.txt", obs.config.zonemap, "gendata_rft")
  ELSE current

RftFolder == PathJoin(Parent, "rft")

WellDateFile == Resolve(PathJoin(RftFolder, "well_date_restart.txt"))

ErtobsFile == Resolve(PathJoin(Parent, "ert_observations.obs"))

GenDataFile == Resolve(PathJoin(Parent, "gen_data_rft_wells.ert"))

ReadmeFile == Resolve(PathJoin(Parent, "readme.txt"))

\* ----------------------------------------------------------------- actions
WriterInit ==
  /\ \E c \in InitialContents : dirs = c.dirs /\ files = c.files
  /\ pc = "idle"
  /\ calls = 0
  /\ obs_list = << >>
  /\ i = 0
  /\ j = 0
  /\ obs_str = << >>
  /\ gen_data = << >>
  /\ gendata_rft_str = << >>
  /\ well_date_list = << >>
  /\ rft_ertobs_str = << >>
  /\ rft_gen_data = << >>
  /\ ret = << >>

MergeIdle ==
  /\ obsdir = NoFiles
  /\ gendatacsv = << >>
  /\ mpc = "start"
  /\ dframe = << >>

Init == WriterInit /\ MergeIdle

\* write_dict_to_ertobs, up to the loop over obs_list
Call ==
  /\ pc = "idle"
  /\ calls < MaxCalls
  /\ \E ol \in ObsLists : obs_list' = ol
  /\ calls' = calls + 1
  /\ dirs' = {Resolve(Parent)}
  /\ files' = WriteFile(rmtree(files), ReadmeFile, add_time_stamp(<< >>, "d", calls + 1))
  /\ gendata_rft_str' = << >>
  /\ obs_str' = add_time_stamp(<< >>, "f", calls + 1)
  /\ gen_data' = << >>
  /\ i' = 1
  /\ j' = 0
  /\ well_date_list' = << >>
  /\ rft_ertobs_str' = << >>
  /\ rft_gen_data' = << >>
  /\ ret' = << >>
  /\ pc' = "obs"
  /\ UNCHANGED mvars

ObsHeader(obs) == << Comment("--"), Comment("--" \o obs.config.name) >>

\* one iteration of the loop over obs_list, SUMMARY branch
SummaryObs ==
  /\ pc = "obs"
  /\ i <= Len(obs_list)
  /\ obs_list[i].config.type = "SUMMARY"
  /\ obs_str' = obs_str \o ObsHeader(obs_list[i])
                \o write_timeseries_ertobs(obs_list[i].data)
  /\ i' = i + 1
  /\ UNCHANGED << dirs, files, pc, calls, obs_list, j, gen_data, gendata_rft_str,
                  well_date_list, rft_ertobs_str, rft_gen_data, ret >>
  /\ UNCHANGED mvars

\* RFT branch: write_genrft_str for the first one, then write_rft_ertobs up to its loop
RftObs ==
  /\ pc = "obs"
  /\ i <= Len(obs_list)
  /\ obs_list[i].config.type = "RFT"
  /\ obs_str' = obs_str \o ObsHeader(obs_list[i])
  /\ gendata_rft_str' = first_genrft_str(gendata_rft_str, RftFolder, obs_list[i])
  /\ dirs' = dirs \cup {Resolve(RftFolder)}
  /\ well_date_list' = << >>
  /\ rft_ertobs_str' = << >>
  /\ rft_gen_data' = << >>
  /\ j' = 1
  /\ pc' = "elem"
  /\ UNCHANGED << files, calls, obs_list, i, gen_data, ret >>
  /\ UNCHANGED mvars

\* one iteration of the loop over rft_dict["data"]
RftElem ==
  /\ pc = "elem"
  /\ j <= Len(obs_list[i].data)
  /\ LET element == obs_list[i].data[j]
         prefix == obs_list[i].config.subtype
         res == write_well_rft_files(files, RftFolder, prefix, element)
     IN /\ files' = res.files
        /\ well_date_list' =
             IF res.obs_file # None
             THEN Append(well_date_list,
                         [well_name |-> element.well_name, date |-> element.date,
                          restart |-> element.restart])
             ELSE well_date_list
        /\ rft_ertobs_str' =
             IF res.obs_file # None
             THEN Append(rft_ertobs_str,
                         create_rft_ertobs_str(element, prefix, res.obs_file))
             ELSE rft_ertobs_str
        /\ rft_gen_data' =
             IF res.obs_file # None
             THEN Append(rft_gen_data,
                         create_rft_gendata_str(element, prefix, "gendata_rft"))
             ELSE rft_gen_data
  /\ j' = j + 1
  /\ UNCHANGED << dirs, pc, calls, obs_list, i, obs_str, gen_data, gendata_rft_str, ret >>
  /\ UNCHANGED mvars

\* the end of write_rft_ertobs and of the RFT branch
RftReturn ==
  /\ pc = "elem"
  /\ j > Len(obs_list[i].data)
  /\ files' = WriteFile(files, WellDateFile, well_date_list)
  /\ obs_str' = obs_str \o rft_ertobs_str
  /\ gen_data' = gen_data \o rft_gen_data
  /\ i' = i + 1
  /\ pc' = "obs"
  /\ UNCHANGED << dirs, calls, obs_list, j, gendata_rft_str, well_date_list,
                  rft_ertobs_str, rft_gen_data, ret >>
  /\ UNCHANGED mvars

\* mutant: an unsupported observation ends the loop
OtherObs_stops ==
  /\ pc = "obs"
  /\ i <= Len(obs_list)
  /\ obs_list[i].config.type \notin {"SUMMARY", "RFT"}
  /\ obs_str' = obs_str \o << Comment("--"), Comment("--" \o obs_list[i].config.name) >>
  /\ i' = Len(obs_list) + 1
  /\ UNCHANGED << dirs, files, pc, calls, obs_list, j, gen_data, gendata_rft_str,
                  well_date_list, rft_ertobs_str, rft_gen_data, ret >>
  /\ UNCHANGED mvars

\* an observation that is neither SUMMARY nor RFT: a warning only
OtherObs ==
  /\ pc = "obs"
  /\ i <= Len(obs_list)
  /\ obs_list[i].config.type \notin {"SUMMARY", "RFT"}
  /\ obs_str' = obs_str \o ObsHeader(obs_list[i])
  /\ i' = i + 1
  /\ UNCHANGED << dirs, files, pc, calls, obs_list, j, gen_data, gendata_rft_str,
                  well_date_list, rft_ertobs_str, rft_gen_data, ret >>
  /\ UNCHANGED mvars

\* after the loop: the two result files and the return
Finish ==
  /\ pc = "obs"
  /\ i > Len(obs_list)
  /\ files' =
       LET f1 == WriteFile(files, ErtobsFile, obs_str)
       IN IF gen_data # << >>
          THEN WriteFile(f1, GenDataFile,
                         add_time_stamp(gendata_rft_str \o GENDATA_EXPLAINER \o gen_data,
                                        "f", calls))
          ELSE f1
  /\ ret' = obs_str
  /\ pc' = "done"
  /\ UNCHANGED << dirs, calls, obs_list, i, j, obs_str, gen_data, gendata_rft_str,
                  well_date_list, rft_ertobs_str, rft_gen_data >>
  /\ UNCHANGED mvars

\* the caller may call again on the same parent
Return ==
  /\ pc = "done"
  /\ calls < MaxCalls
  /\ pc' = "idle"
  /\ UNCHANGED << dirs, files, calls, obs_list, i, j, obs_str, gen_data,
                  gendata_rft_str, well_date_list, rft_ertobs_str, rft_gen_data, ret >>
  /\ UNCHANGED mvars

\* ------------------------------------------------- merge_rft_ertobs (inputs)
\* a token is a sequence of characters, a line a sequence of tokens
Tokens == { << "1", "2" >>, << "-", "1" >>, << "h", "e", "i" >> }

ObsLines == SeqsUpTo(Tokens, MaxTokens)

ObsFileContents == SeqsUpTo(ObsLines, MaxLines)

StrayContent == << << << "F", "O", "B", "O", "B", "A", "R" >> >> >>

ObsDirs ==
  { [p \in {"R_A2.obs"} |-> c] : c \in ObsFileContents }
  \cup { [p \in {"R_A2.obs", "FOO.obs"} |-> IF p = "FOO.obs" THEN StrayContent ELSE c] :
           c \in ObsFileContents }

\* the pressure column holds the inactive-cell value for cells outside the grid
INACTIVE == 0 - 1

SimPressures == {INACTIVE, 250}

GendataCsvs ==
  { << [well |-> "R_A2", order |-> 0, time |-> DateOf(1), pressure |-> p0],
       [well |-> "R_A2", order |-> 1, time |-> DateOf(1), pressure |-> p1] >> :
      p0 \in SimPressures, p1 \in SimPressures }

\* ------------------------------------------------------ merge_rft_ertobs
Digits == {"0", "1", "2", "3", "4", "5", "6", "7", "8", "9"}

IsNumber(token) ==
  LET body == IF token # << >> /\ Head(token) = "-" THEN Tail(token) ELSE token
  IN /\ body # << >>
     /\ \A k \in 1..Len(body) : body[k] \in Digits

DigitValue(c) ==
  CASE c = "0" -> 0 [] c = "1" -> 1 [] c = "2" -> 2 [] c = "3" -> 3 [] c = "4" -> 4
    [] c = "5" -> 5 [] c = "6" -> 6 [] c = "7" -> 7 [] c = "8" -> 8 [] c = "9" -> 9

RECURSIVE NaturalValue(_)
NaturalValue(body) ==
  IF body = << >> THEN 0
  ELSE 10 * NaturalValue(SubSeq(body, 1, Len(body) - 1)) + DigitValue(body[Len(body)])

ToNumeric(token) ==
  IF Head(token) = "-" THEN 0 - NaturalValue(Tail(token)) ELSE NaturalValue(token)

\* mutant: a line with further tokens is rejected
ValidObsLine_two(line) == Len(line) = 2 /\ IsNumber(line[1]) /\ IsNumber(line[2])

\* a line gives an observation when its first two tokens are numbers
ValidObsLine(line) == Len(line) >= 2 /\ IsNumber(line[1]) /\ IsNumber(line[2])

WellOfFile(name) == IF name = "R_A2.obs" THEN "R_A2" ELSE "FOO"

\* the rows of one .obs file: order is the position of the line in the file
RECURSIVE ObsFileRows(_, _, _)
ObsFileRows(well, lines, k) ==
  IF k > Len(lines) THEN << >>
  ELSE (IF ValidObsLine(lines[k])
        THEN << [well |-> well, order |-> k - 1,
                 observed |-> ToNumeric(lines[k][1]), error |-> ToNumeric(lines[k][2])] >>
        ELSE << >>)
       \o ObsFileRows(well, lines, k + 1)

RECURSIVE ObsDirRows(_, _)
ObsDirRows(dir, names) ==
  IF names = {} THEN << >>
  ELSE LET name == CHOOSE n \in names : \A m \in names : n = "R_A2.obs" \/ m # "R_A2.obs"
       IN ObsFileRows(WellOfFile(name), dir[name], 1) \o ObsDirRows(dir, names \ {name})

get_observations(dir) == ObsDirRows(dir, DOMAIN dir)

\* a nullable cell is << >> (null) or << v >>
SimPressure(p) == IF p = INACTIVE THEN << >> ELSE << p >>

MatchingObs(observations, sim) ==
  SelectSeq(observations, LAMBDA o : o.well = sim.well /\ o.order = sim.order)

\* mutant: a simulated row flagged inactive is dropped
JoinRow_drops(sim, observations) ==
  LET m == MatchingObs(observations, sim)
  IN IF sim.pressure = INACTIVE THEN << >>
     ELSE IF m = << >>
     THEN << [well |-> sim.well, order |-> sim.order, time |-> sim.time,
              pressure |-> << sim.pressure >>, observed |-> << >>, error |-> << >>] >>
     ELSE [k \in 1..Len(m) |->
             [well |-> sim.well, order |-> sim.order, time |-> sim.time,
              pressure |-> << sim.pressure >>,
              observed |-> << m[k].observed >>, error |-> << m[k].error >>]]

\* the rows the left join gives for one simulated row
JoinRow(sim, observations) ==
  LET m == MatchingObs(observations, sim)
  IN IF m = << >>
     THEN << [well |-> sim.well, order |-> sim.order, time |-> sim.time,
              pressure |-> SimPressure(sim.pressure),
              observed |-> << >>, error |-> << >>] >>
     ELSE [k \in 1..Len(m) |->
             [well |-> sim.well, order |-> sim.order, time |-> sim.time,
              pressure |-> SimPressure(sim.pressure),
              observed |-> << m[k].observed >>, error |-> << m[k].error >>]]

RECURSIVE LeftJoin(_, _)
LeftJoin(sims, observations) ==
  IF sims = << >> THEN << >>
  ELSE JoinRow(Head(sims), observations) \o LeftJoin(Tail(sims), observations)

merge_rft_ertobs(csv, dir) == LeftJoin(csv, get_observations(dir))

WriterIdle ==
  /\ dirs = {}
  /\ files = NoFiles
  /\ pc = "idle"
  /\ calls = MaxCalls
  /\ obs_list = << >>
  /\ i = 0
  /\ j = 0
  /\ obs_str = << >>
  /\ gen_data = << >>
  /\ gendata_rft_str = << >>
  /\ well_date_list = << >>
  /\ rft_ertobs_str = << >>
  /\ rft_gen_data = << >>
  /\ ret = << >>

MergeInit ==
  /\ WriterIdle
  /\ obsdir \in ObsDirs
  /\ gendatacsv \in GendataCsvs
  /\ mpc = "start"
  /\ dframe = << >>

GetObservations ==
  /\ mpc = "start"
  /\ dframe' = get_observations(obsdir)
  /\ mpc' = "observations"
  /\ UNCHANGED << obsdir, gendatacsv, wvars >>

MergeRftErtobs ==
  /\ mpc = "start"
  /\ dframe' = merge_rft_ertobs(gendatacsv, obsdir)
  /\ mpc' = "merged"
  /\ UNCHANGED << obsdir, gendatacsv, wvars >>

MergeNext ==
  \/ GetObservations
  \/ MergeRftErtobs

SpecMerge == MergeInit /\ [][MergeNext]_vars

Next ==
  \/ Call
  \/ SummaryObs
  \/ RftObs
  \/ RftElem
  \/ RftReturn
  \/ OtherObs
  \/ Finish
  \/ Return

Spec == Init /\ [][Next]_vars

\* =================================================================== claims
\* ---- what a call is expected to leave, read off its argument
HasActiveRows(element) == \E k \in 1..Len(element.data) : element.data[k].active

IsRft(obs) == obs.config.type = "RFT"

IsSupported(obs) == obs.config.type \in {"SUMMARY", "RFT"}

\* the elements of the RFT observations of ol that have rows left, in order,
\* each with the prefix of its observation
RECURSIVE RftWritten(_)
RftWritten(ol) ==
  IF ol = << >> THEN << >>
  ELSE LET obs == Head(ol)
           ne == IF IsRft(obs) THEN SelectSeq(obs.data, HasActiveRows) ELSE << >>
       IN [k \in 1..Len(ne) |-> [prefix |-> obs.config.subtype, element |-> ne[k]]]
          \o RftWritten(Tail(ol))

\* the part of obs_list the running call has gone through
Processed ==
  IF pc = "elem"
  THEN Append(SubSeq(obs_list, 1, i - 1),
              [obs_list[i] EXCEPT !.data = SubSeq(obs_list[i].data, 1, j - 1)])
  ELSE SubSeq(obs_list, 1, i - 1)

WellFilesOf(ol) ==
  UNION { { ObsFilePath(RftFolder, w.prefix, w.element),
            PositionFilePath(RftFolder, w.element) } :
          w \in { RftWritten(ol)[k] : k \in 1..Len(RftWritten(ol)) } }

ExpectedFiles(ol) ==
  {ReadmeFile, ErtobsFile}
  \cup WellFilesOf(ol)
  \cup (IF \E k \in 1..Len(ol) : IsRft(ol[k]) THEN {WellDateFile} ELSE {})
  \cup (IF RftWritten(ol) # << >> THEN {GenDataFile} ELSE {})

ExpectedDirs(ol) ==
  {Resolve(Parent)}
  \cup (IF \E k \in 1..Len(ol) : IsRft(ol[k]) THEN {Resolve(RftFolder)} ELSE {})

IsDeclaration(line) == line.kind # "COMMENT"

IsGeneralObservation(line) == line.kind = "GENERAL_OBSERVATION"

IsGenData(line) == line.kind = "GEN_DATA"

Declarations(text) == SelectSeq(text, IsDeclaration)

ExpectedGeneralObs(ol) ==
  [k \in 1..Len(RftWritten(ol)) |->
     LET w == RftWritten(ol)[k]
     IN create_rft_ertobs_str(w.element, w.prefix,
                              ObsFilePath(RftFolder, w.prefix, w.element))]

ExpectedGenData(ol) ==
  [k \in 1..Len(RftWritten(ol)) |->
     create_rft_gendata_str(RftWritten(ol)[k].element, RftWritten(ol)[k].prefix,
                            "gendata_rft")]

RECURSIVE ExpectedDeclarations(_)
ExpectedDeclarations(ol) ==
  IF ol = << >> THEN << >>
  ELSE LET obs == Head(ol)
       IN (IF obs.config.type = "SUMMARY" THEN write_timeseries_ertobs(obs.data)
           ELSE IF IsRft(obs) THEN ExpectedGeneralObs(<< obs >>)
           ELSE << >>)
          \o ExpectedDeclarations(Tail(ol))

WellDateRow(element) ==
  [well_name |-> element.well_name, date |-> element.date, restart |-> element.restart]

Range(s) == { s[k] : k \in 1..Len(s) }

\* C1: when a call has completed, the destination holds exactly the files and
\* directories that a call with this obs_list writes, whatever the destination
\* held before (stale content or the files of an earlier call); the file set
\* depends on obs_list alone, so a repeated call leaves the same set.
C1_DestinationRecreated ==
  pc = "done" =>
    /\ DOMAIN files = ExpectedFiles(obs_list)
    /\ dirs = ExpectedDirs(obs_list)

\* a second call has completed with fewer files than an RFT call leaves
C1_Witness ==
  /\ pc = "done"
  /\ calls = 2
  /\ obs_list = << >>
  /\ DOMAIN files = {ReadmeFile, ErtobsFile}

\* C2: when a call has completed, the rows of rft/well_date_restart.txt are
\* exactly the (well, date, restart) of the elements that got a
\* GENERAL_OBSERVATION declaration.
C2_ReportStepFileMatchesDeclarations ==
  pc = "done" =>
    (IF WellDateFile \in DOMAIN files THEN Range(files[WellDateFile]) ELSE {})
      = { WellDateRow(RftWritten(obs_list)[k].element) : k \in 1..Len(RftWritten(obs_list)) }

DistinctWellRestart(data) ==
  \A a, b \in 1..Len(data) :
    a # b => << data[a].well_name, data[a].restart >> # << data[b].well_name, data[b].restart >>

DistinctKeys(lines) ==
  \A a, b \in 1..Len(lines) : a # b => lines[a].key # lines[b].key

\* C3: inside write_rft_ertobs, when the elements of the observation have
\* pairwise distinct (well_name, restart), the GENERAL_OBSERVATION keys written
\* so far are pairwise distinct and so are the GEN_DATA keys.
C3_KeysUniquePerWellStep ==
  (pc = "elem" /\ DistinctWellRestart(obs_list[i].data)) =>
    DistinctKeys(rft_ertobs_str) /\ DistinctKeys(rft_gen_data)

\* C4: when a call has completed, the declarations returned, the files and
\* directories left, the rows of the report-step file and the GEN_DATA lines
\* are those of obs_list with the unsupported observations taken out.
C4_UnsupportedSkipped ==
  pc = "done" =>
    LET supported == SelectSeq(obs_list, IsSupported)
    IN /\ Declarations(ret) = ExpectedDeclarations(supported)
       /\ DOMAIN files = ExpectedFiles(supported)
       /\ dirs = ExpectedDirs(supported)
       /\ Declarations(gen_data) = ExpectedGenData(supported)
       /\ gendata_rft_str # << >> <=> (\E k \in 1..Len(supported) : IsRft(supported[k]))

\* an unsupported observation came first and an RFT observation after it was written
C4_Witness ==
  /\ pc = "done"
  /\ Len(obs_list) = 2
  /\ ~IsSupported(obs_list[1])
  /\ IsRft(obs_list[2])
  /\ RftWritten(obs_list) # << >>
  /\ GenDataFile \in DOMAIN files

\* C5: during and after the loops, the well files that exist, the rows gathered
\* for the report-step file and the two declaration strings are those of the
\* elements gone through that have rows left: an element with no active row
\* adds none of them, the others add theirs.
C5_EmptyWellsSkipped ==
  pc = "elem" =>
    LET this == << [obs_list[i] EXCEPT !.data = SubSeq(obs_list[i].data, 1, j - 1)] >>
    IN /\ DOMAIN files \ {ReadmeFile, WellDateFile} = WellFilesOf(Processed)
       /\ well_date_list =
            [k \in 1..Len(RftWritten(this)) |-> WellDateRow(RftWritten(this)[k].element)]
       /\ rft_ertobs_str = ExpectedGeneralObs(this)
       /\ rft_gen_data = ExpectedGenData(this)

\* an element with no active row has been gone through after one that was written
C5_Witness ==
  /\ pc = "elem"
  /\ j = 3
  /\ HasActiveRows(obs_list[i].data[1])
  /\ ~HasActiveRows(obs_list[i].data[2])
  /\ Len(rft_ertobs_str) = 1
  /\ Cardinality(DOMAIN files) = 3

\* C8: when a call has completed, the k-th GENERAL_OBSERVATION declaration of
\* ert_observations.obs names an existing OBS_FILE that holds the value/error
\* pairs of the active rows of the k-th written element, and the well's
\* position file holds the positions of the same rows.
C8_WellFilesMatchDeclarations ==
  pc = "done" =>
    LET decls == SelectSeq(files[ErtobsFile], IsGeneralObservation)
        w == RftWritten(obs_list)
    IN /\ Len(decls) = Len(w)
       /\ \A k \in 1..Len(decls) :
            LET rows == SelectSeq(w[k].element.data, IsActive)
            IN /\ decls[k].obs_file \in DOMAIN files
               /\ files[decls[k].obs_file] = ObsFrame(rows)
               /\ files[PositionFilePath(RftFolder, w[k].element)] = PositionFrame(rows)

\* C9: inside write_rft_ertobs the two strings grow in pairs: the same number
\* of lines, one pair per element gone through that has rows left, in order;
\* the k-th GEN_DATA line has the key named by DATA= of the k-th
\* GENERAL_OBSERVATION line, REPORT_STEPS equal to its RESTART, and the
\* RESULT_FILE gendata_rft/RFT_<well>_%d for PRESSURE and
\* gendata_rft/RFT_<prefix>_<well>_%d otherwise.
C9_DeclarationsInPairs ==
  pc = "elem" =>
    LET prefix == obs_list[i].config.subtype
        ne == SelectSeq(SubSeq(obs_list[i].data, 1, j - 1), HasActiveRows)
    IN /\ Len(rft_ertobs_str) = Len(ne)
       /\ Len(rft_gen_data) = Len(ne)
       /\ \A k \in 1..Len(ne) :
            /\ rft_ertobs_str[k].kind = "GENERAL_OBSERVATION"
            /\ rft_gen_data[k].kind = "GEN_DATA"
            /\ rft_ertobs_str[k].data = ne[k].well_name \o "_" \o prefix \o "_SIM"
            /\ rft_ertobs_str[k].restart = ne[k].restart
            /\ rft_gen_data[k].key = rft_ertobs_str[k].data
            /\ rft_gen_data[k].report_steps = rft_ertobs_str[k].restart
            /\ rft_gen_data[k].result_file =
                 IF prefix = "PRESSURE"
                 THEN "gendata_rft/RFT_" \o ne[k].well_name \o "_%d"
                 ELSE "gendata_rft/RFT_" \o prefix \o "_" \o ne[k].well_name \o "_%d"

\* two pairs have been emitted for a prefix other than PRESSURE, after an empty element
C9_Witness ==
  /\ pc = "elem"
  /\ obs_list[i].config.subtype = "SWAT"
  /\ j = 3
  /\ Len(rft_gen_data) = 2
  /\ rft_gen_data[1].key # rft_gen_data[2].key

FirstRft(ol) == ol[CHOOSE k \in 1..Len(ol) : IsRft(ol[k]) /\ \A m \in 1..(k - 1) : ~IsRft(ol[m])]

IsGendataRftJob(line) == line.kind = "FORWARD_MODEL" /\ line.job = "GENDATA_RFT"

IsFlagged(sim) == sim.pressure = INACTIVE

HasNullPressure(row) == row.pressure = << >>

Unflagged(csv) ==
  [k \in 1..Len(csv) |->
     IF IsFlagged(csv[k]) THEN [csv[k] EXCEPT !.pressure = 250] ELSE csv[k]]

\* C6: in the merged table the rows with a null pressure are as many as the
\* simulated values flagged inactive, the table has as many rows as when no
\* value is flagged, and a flagged (well, point) has one row, which carries the
\* observed value and error of that point.
C6_InactiveKeepsRow ==
  mpc = "merged" =>
    /\ Len(SelectSeq(dframe, HasNullPressure)) = Len(SelectSeq(gendatacsv, IsFlagged))
    /\ Len(dframe) = Len(merge_rft_ertobs(Unflagged(gendatacsv), obsdir))
    /\ \A k \in 1..Len(gendatacsv) :
         IsFlagged(gendatacsv[k]) =>
           LET sim == gendatacsv[k]
               rows == SelectSeq(dframe, LAMBDA r : r.well = sim.well /\ r.order = sim.order)
               line == obsdir["R_A2.obs"]
           IN /\ Len(rows) = 1
              /\ HasNullPressure(rows[1])
              /\ (sim.order < Len(line) /\ Len(line[sim.order + 1]) >= 2
                  /\ line[sim.order + 1][1] = << "1", "2" >>
                  /\ line[sim.order + 1][2] = << "-", "1" >>)
                 => rows[1].observed = << 12 >> /\ rows[1].error = << 0 - 1 >>

\* the first simulated value is flagged and its point has an observation
C6_Witness ==
  /\ mpc = "merged"
  /\ IsFlagged(gendatacsv[1])
  /\ ~IsFlagged(gendatacsv[2])
  /\ Len(dframe) = 2
  /\ dframe[1].pressure = << >>
  /\ dframe[1].observed = << 12 >>
  /\ dframe[2].pressure = << 250 >>

\* the cases of test_get_observations_invalid: the lines of foo.obs and the
\* number of rows expected
test_get_observations_invalid ==
  << [lines |-> << >>, validlength |-> 0],
     [lines |-> << << << "1", "2" >> >> >>, validlength |-> 0],
     [lines |-> << << << "1", "2" >>, << "3" >> >> >>, validlength |-> 1],
     [lines |-> << << << "h", "e", "i" >> >> >>, validlength |-> 0],
     [lines |-> << << << "h", "e", "i" >>, << "h", "o", "p", "p" >> >> >>, validlength |-> 0],
     [lines |-> << << << "1", "2" >>, << "h", "e", "i" >> >> >>, validlength |-> 0],
     [lines |-> << << << "h", "e", "i" >>, << "3" >> >> >>, validlength |-> 0],
     [lines |-> << << << "3" >>, << "4" >>, << "5" >> >> >>, validlength |-> 1],
     [lines |-> << << << "1", "2" >>, << "-", "1" >> >> >>, validlength |-> 1] >>

NumericTokens == { << "1", "2" >>, << "-", "1" >> }

YieldsRow(line) == Len(line) >= 2 /\ line[1] \in NumericTokens /\ line[2] \in NumericTokens

====
